---- MODULE Spec2Model ----
(***************************************************************************)
(* GcpLogger (src/unnamed/part_001): the request interceptor, the         *)
(* completion ("finish") callback it registers, and the error interceptor, *)
(* run by an Express pipeline over several requests in flight at once.     *)
(*                                                                         *)
(* JavaScript values are tagged records.  A string is the sequence of its  *)
(* characters, so that slicing, splitting and concatenation are computed.  *)
(* Header names, environment variable names and the fixed literals of an   *)
(* entry (severity, type) are atomic strings.                              *)
(***************************************************************************)
EXTENDS Integers, Sequences, FiniteSets, TLC

\* ------------------------------------------------------------- bounds ----
NumReqs == 2     \* requests the pipeline handles, all possibly in flight
MaxClock == 1    \* process.hrtime.bigint() reads one of 0..MaxClock ticks
MaxBody == 4     \* safeBody is computed for maxBodyLength in 0..MaxBody

\* ---------------------------------------------------------- JS values ----
Undef == [t |-> "undefined", v |-> <<>>, items |-> <<>>]
Null == [t |-> "null", v |-> <<>>, items |-> <<>>]
Str(s) == [t |-> "string", v |-> s, items |-> <<>>]
Arr(a) == [t |-> "array", v |-> <<>>, items |-> a]

\* ToBoolean: undefined, null and "" are falsy; arrays and other strings truthy
Truthy(x) == x.t = "array" \/ (x.t = "string" /\ x.v # <<>>)

\* a || b
OrElse(a, b) == IF Truthy(a) THEN a ELSE b

\* a ?? b
Nullish(a, b) == IF a.t \in {"undefined", "null"} THEN b ELSE a

\* obj[k] of a JS object: undefined for a missing key
Get(obj, k) == IF k \in DOMAIN obj THEN obj[k] ELSE Undef

\* options.x ?? d, an option being {} when not given and {x} when given
Opt(o, d) == IF o = {} THEN d ELSE CHOOSE x \in o : TRUE

Max(a, b) == IF a >= b THEN a ELSE b

\* String.prototype.toLowerCase on the names that occur
ToLowerCase(n) ==
  CASE n = "Authorization" -> "authorization"
    [] n = "Referer" -> "referer"
    [] n = "X-Request-Id" -> "x-request-id"
    [] OTHER -> n

\* ----------------------------------------------------------- literals ----
REDACTED == Str(<<"[", "R", "E", "D", "A", "C", "T", "E", "D", "]">>)
\* the character U+2026 (horizontal ellipsis), one character of a string
Ellipsis == "U+2026"
TRUNCATED == <<Ellipsis, "[", "t", "r", "u", "n", "c", "a", "t", "e", "d", "]">>
UNSERIALIZABLE ==
  Str(<<"[", "u", "n", "s", "e", "r", "i", "a", "l", "i", "z", "a", "b", "l",
        "e", " ", "b", "o", "d", "y", "]">>)
UNHANDLED ==
  Str(<<"U", "n", "h", "a", "n", "d", "l", "e", "d", " ", "e", "r", "r", "o", "r">>)
HTTP_REQUEST ==
  Str(<<"H", "T", "T", "P", " ", "r", "e", "q", "u", "e", "s", "t">>)
PROJECTS == <<"p", "r", "o", "j", "e", "c", "t", "s", "/">>
TRACES == <<"/", "t", "r", "a", "c", "e", "s", "/">>

Healthz == <<"/", "h", "e", "a", "l", "t", "h", "z">>
Metrics == <<"/", "m", "e", "t", "r", "i", "c", "s">>
Favicon == <<"/", "f", "a", "v", "i", "c", "o", "n", ".", "i", "c", "o">>
Api == <<"/", "a", "p", "i">>

NsPerMs == 1000000
DefaultMaxBodyLength == 10000
Range(f) == {f[i] : i \in DOMAIN f}

\* --------------------------------------------------------- constructor ----
\* A RegExp object of skipPaths: /^<source>$/ or /^<source>$/g.  Its mutable
\* lastIndex lives in the variable lastIndex.
Rx(src, g) == [source |-> src, global |-> g]

DefaultRedactHeaders == <<"authorization", "cookie">>
DefaultSkipPaths == <<Rx(Healthz, FALSE), Rx(Metrics, FALSE), Rx(Favicon, FALSE)>>
DefaultProjectIdEnvVar == "GCP_PROJECT"

\* new GcpLogger(options): every option is {} (not given) or {value}
Constructor(options) ==
  [redactHeaders |->
     LET given == Opt(options.redactHeaders, DefaultRedactHeaders)
     IN [i \in DOMAIN given |-> ToLowerCase(given[i])],
   captureBody |-> Opt(options.captureBody, FALSE),
   maxBodyLength |-> Opt(options.maxBodyLength, DefaultMaxBodyLength),
   getUserId |-> Opt(options.getUserId, "returnsUndefined"),
   skipPaths |-> Opt(options.skipPaths, DefaultSkipPaths),
   projectIdEnvVar |-> Opt(options.projectIdEnvVar, DefaultProjectIdEnvVar)]

\* ------------------------------------------------------------- helpers ----
\* RegExp.prototype.test of an anchored pattern: a pattern without the g flag
\* ignores and keeps lastIndex; with the g flag the search starts at lastIndex,
\* so ^ can only match when lastIndex is 0, a match moves lastIndex to the
\* end of the match and a failure resets it to 0.
RegExpTest(rx, li, path) ==
  IF ~rx.global
    THEN [result |-> path = rx.source, lastIndex |-> li]
    ELSE IF li = 0 /\ path = rx.source
           THEN [result |-> TRUE, lastIndex |-> Len(path)]
           ELSE [result |-> FALSE, lastIndex |-> 0]

\* Array.prototype.some(rx => rx.test(path)) from index i on: stops at the
\* first pattern that matches
RECURSIVE SomeTest(_, _, _, _)
SomeTest(rxs, li, path, i) ==
  IF i > Len(rxs)
    THEN [result |-> FALSE, lastIndex |-> li]
    ELSE LET t == RegExpTest(rxs[i], li[i], path)
             li2 == [li EXCEPT ![i] = t.lastIndex]
         IN IF t.result
              THEN [result |-> TRUE, lastIndex |-> li2]
              ELSE SomeTest(rxs, li2, path, i + 1)

shouldSkip(o, li, path) == SomeTest(o.skipPaths, li, path, 1)

\* safeHeaders that compares the header name as it is spelled
safeHeadersExactCase(o, headers) ==
  [k \in DOMAIN headers |->
     IF k \in Range(o.redactHeaders) THEN REDACTED ELSE headers[k]]

safeHeaders(o, headers) ==
  [k \in DOMAIN headers |->
     IF ToLowerCase(k) \in Range(o.redactHeaders) THEN REDACTED ELSE headers[k]]

\* s.slice(0, end): a negative end counts from the end of s
SliceFromStart(s, end) ==
  LET to == IF end < 0 THEN Max(Len(s) + end, 0) ELSE IF end > Len(s) THEN Len(s) ELSE end
  IN SubSeq(s, 1, to)

\* safeBody that also truncates a body of exactly maxBodyLength characters
safeBodyAtLimit(o, body) ==
  IF ~o.captureBody THEN Undef
  ELSE IF body.t = "circular" THEN UNSERIALIZABLE
  ELSE LET raw == IF body.t = "object" THEN Str(body.v) ELSE body
       IN IF ~Truthy(raw) THEN Undef
          ELSE IF Len(raw.v) >= o.maxBodyLength
                 THEN Str(SliceFromStart(raw.v, o.maxBodyLength) \o TRUNCATED)
                 ELSE raw

\* req.body is undefined, a string, an object (v holds its JSON text) or an
\* object JSON.stringify throws on (t = "circular")
safeBody(o, body) ==
  IF ~o.captureBody THEN Undef
  ELSE IF body.t = "circular" THEN UNSERIALIZABLE
  ELSE LET raw == IF body.t = "object" THEN Str(body.v) ELSE body
       IN IF ~Truthy(raw) THEN Undef
          ELSE IF Len(raw.v) > o.maxBodyLength
                 THEN Str(SliceFromStart(raw.v, o.maxBodyLength) \o TRUNCATED)
                 ELSE raw

\* s.split("/")[0]: the characters before the first "/"
RECURSIVE BeforeSlash(_)
BeforeSlash(s) ==
  IF s = <<>> \/ Head(s) = "/" THEN <<>> ELSE <<Head(s)>> \o BeforeSlash(Tail(s))

\* buildTrace that consults the configured variable before the two
\* well-known ones
buildTraceConfiguredFirst(o, env, headers) ==
  LET projectId == OrElse(OrElse(Get(env, o.projectIdEnvVar),
                                 Get(env, "GOOGLE_CLOUD_PROJECT")),
                          Get(env, "GCLOUD_PROJECT"))
      traceHeader == OrElse(Get(headers, "x-cloud-trace-context"), Str(<<>>))
      traceId == Str(BeforeSlash(traceHeader.v))
  IN IF Truthy(projectId) /\ Truthy(traceId)
       THEN Str(PROJECTS \o projectId.v \o TRACES \o traceId.v)
       ELSE Undef

\* Node delivers x-cloud-trace-context as one string, or not at all
buildTrace(o, env, headers) ==
  LET projectId == OrElse(OrElse(Get(env, "GOOGLE_CLOUD_PROJECT"),
                                 Get(env, "GCLOUD_PROJECT")),
                          Get(env, o.projectIdEnvVar))
      traceHeader == OrElse(Get(headers, "x-cloud-trace-context"), Str(<<>>))
      traceId == Str(BeforeSlash(traceHeader.v))
  IN IF Truthy(projectId) /\ Truthy(traceId)
       THEN Str(PROJECTS \o projectId.v \o TRACES \o traceId.v)
       ELSE Undef

\* statusToSeverity with the boundary 500 left out of the highest tier
statusToSeverityAbove(status) ==
  IF status > 500 THEN "ERROR"
  ELSE IF status >= 400 THEN "WARNING"
  ELSE "INFO"

statusToSeverity(status) ==
  IF status >= 500 THEN "ERROR"
  ELSE IF status >= 400 THEN "WARNING"
  ELSE "INFO"

\* BigInt division truncates toward zero
BigIntDiv(a, b) == IF a >= 0 THEN a \div b ELSE -((-a) \div b)

durationMs(now, started) == BigIntDiv(now - started, NsPerMs)

\* this.opts.getUserId(req): the default returns undefined; a configured
\* extractor returns an identifier or throws
ExtractorError == [message |-> Str(<<"n", "o", " ", "u", "s", "e", "r">>), stack |-> Undef]
getUserId(o, req) ==
  CASE o.getUserId = "returnsUndefined" -> [throws |-> FALSE, value |-> Undef]
    [] o.getUserId = "returnsId" -> [throws |-> FALSE, value |-> Str(<<"u", "1">>)]
    [] o.getUserId = "throws" -> [throws |-> TRUE, value |-> Undef]

\* JSON.stringify of an object: the keys whose value is undefined are left
\* out (optional names the keys that hold a JS value)
JSONStringify(obj, optional) ==
  [k \in {x \in DOMAIN obj : x \notin optional \/ obj[x].t # "undefined"} |-> obj[k]]

\* crypto.randomUUID(): the n-th identifier drawn; distinct draws are distinct
UuidDigits == <<"1", "2", "3", "4", "5", "6", "7", "8", "9">>
randomUUID(n) == Str(<<"u", "u", "i", "d", "-", UuidDigits[n]>>)

\* ------------------------------------------------------------- entries ----
\* requestIdOf that never looks at the inbound header
requestIdAlwaysFresh(headers, n) == randomUUID(n)

\* (req.headers["x-request-id"] as string) || crypto.randomUUID(), n being
\* the identifier randomUUID would draw
requestIdOf(headers, n) == OrElse(Get(headers, "x-request-id"), randomUUID(n))

\* errorRequestIdOf that never looks at req.requestId
errorRequestIdAlwaysFresh(req, n) == randomUUID(n)

\* (req as any).requestId || crypto.randomUUID()
errorRequestIdOf(req, n) == OrElse(req.requestId, randomUUID(n))

\* `${Math.max(durationMs, 0) / 1000}s`: the number of thousandths of a second
latency(d) == [thousandths |-> Max(d, 0), unit |-> "s"]

\* The logEntry of the finish callback.  c is the closure of the callback
\* (started, requestId, trace), now the clock it reads.  The fields method,
\* protocol, remoteIp and query are copied from req and left out here; `of`
\* is not a field of the entry: it names the request whose hook built it.
requestLogEntry(o, r, req, c, now, userId) ==
  [severity |-> statusToSeverity(req.statusCode),
   message |-> HTTP_REQUEST,
   httpRequest |->
     [requestUrl |-> req.path,
      status |-> req.statusCode,
      userAgent |-> Get(req.headers, "user-agent"),
      referer |-> Get(req.headers, "referer"),
      latency |-> latency(durationMs(now, c.started))],
   trace |-> c.trace,
   requestId |-> c.requestId,
   type |-> "request",
   path |-> req.path,
   durationMs |-> durationMs(now, c.started),
   userId |-> Nullish(userId, Null),
   host |-> Get(req.headers, "host"),
   headers |-> safeHeaders(o, req.headers),
   body |-> safeBody(o, req.body),
   of |-> r]

\* errorLogEntry that classifies by the response status and takes the
\* failure's message as it is
errorLogEntryRaw(o, e, r, req, err, n, userId) ==
  [severity |-> statusToSeverity(req.statusCode),
   message |-> err.message,
   trace |-> buildTrace(o, e, req.headers),
   httpRequest |->
     [requestUrl |-> req.path,
      status |-> req.statusCode,
      userAgent |-> Get(req.headers, "user-agent")],
   type |-> "error",
   requestId |-> errorRequestIdOf(req, n),
   path |-> req.path,
   userId |-> Nullish(userId, Null),
   stack |-> err.stack,
   headers |-> safeHeaders(o, req.headers),
   of |-> r]

\* The logEntry of the error interceptor
errorLogEntry(o, e, r, req, err, n, userId) ==
  [severity |-> "ERROR",
   message |-> OrElse(err.message, UNHANDLED),
   trace |-> buildTrace(o, e, req.headers),
   httpRequest |->
     [requestUrl |-> req.path,
      status |-> req.statusCode,
      userAgent |-> Get(req.headers, "user-agent")],
   type |-> "error",
   requestId |-> errorRequestIdOf(req, n),
   path |-> req.path,
   userId |-> Nullish(userId, Null),
   stack |-> err.stack,
   headers |-> safeHeaders(o, req.headers),
   of |-> r]

\* JSON.stringify(logEntry): undefined values are dropped at every level
JsValued == {"message", "trace", "requestId", "userId", "host", "body", "stack"}
Serialize(entry) ==
  LET top == JSONStringify(entry, JsValued \cap DOMAIN entry)
  IN [top EXCEPT
        !.httpRequest = JSONStringify(@, {"userAgent", "referer"} \cap DOMAIN @),
        !.headers = JSONStringify(@, DOMAIN @)]

\* ---------------------------------------------------------- the inputs ----
Reqs == 1 .. NumReqs

\* process.hrtime.bigint() in ns: a tick is one and a half milliseconds
ClockReadings == {k * ((3 * NsPerMs) \div 2) : k \in 0 .. MaxClock}

Statuses == {399, 400, 499, 500}

\* the deployments: the options given to the constructor and process.env
NoOptions ==
  [redactHeaders |-> {}, captureBody |-> {}, maxBodyLength |-> {},
   getUserId |-> {}, skipPaths |-> {}, projectIdEnvVar |-> {}]
Deployments ==
  { [options |-> NoOptions, env |-> <<>>],
    [options |-> [NoOptions EXCEPT !.redactHeaders = {<<"Authorization", "Referer">>},
                                   !.captureBody = {TRUE},
                                   !.maxBodyLength = {2},
                                   !.getUserId = {"returnsId"}],
     env |-> [n \in {"GOOGLE_CLOUD_PROJECT"} |-> Str(<<"p">>)]],
    [options |-> [NoOptions EXCEPT !.redactHeaders = {<<"X-Request-Id">>},
                                   !.getUserId = {"throws"}],
     env |-> [n \in {"GCP_PROJECT"} |-> Str(<<"q">>)]],
    [options |-> [NoOptions EXCEPT !.skipPaths = {<<Rx(Healthz, TRUE)>>},
                                   !.projectIdEnvVar = {"MY_PROJECT"}],
     env |-> [n \in {"MY_PROJECT"} |-> Str(<<"m">>)]] }

\* the requests a client sends: path, headers and parsed body
Sample(path, headers, body) == [path |-> path, headers |-> headers, body |-> body]
Samples ==
  { Sample(Healthz,
           [n \in {"authorization"} |-> Str(<<"t", "o", "k">>)],
           Undef),
    Sample(Api,
           [n \in {"Authorization", "referer", "user-agent", "host"} |->
              CASE n = "Authorization" -> Str(<<"t", "o", "k">>)
                [] n = "referer" -> Str(<<"r", "e", "f">>)
                [] n = "user-agent" -> Str(<<"u", "a">>)
                [] n = "host" -> Str(<<"h">>)],
           Str(<<"a", "b", "c">>)),
    Sample(Api,
           [n \in {"x-request-id", "cookie", "x-cloud-trace-context", "set-cookie"} |->
              CASE n = "x-request-id" -> Str(<<"r", "1">>)
                [] n = "cookie" -> Str(<<"c">>)
                [] n = "x-cloud-trace-context" -> Str(<<"t", "/", "1">>)
                [] n = "set-cookie" -> Arr(<<<<"a">>, <<"b">>>>)],
           [t |-> "object", v |-> <<"{", "}">>, items |-> <<>>]),
    Sample(Api,
           [n \in {"x-request-id", "authorization"} |->
              CASE n = "x-request-id" -> Str(<<>>)
                [] n = "authorization" -> Str(<<"t", "o", "k">>)],
           [t |-> "circular", v |-> <<>>, items |-> <<>>]) }

\* the failures a handler raises: Error("boom") without a stack, and a value
\* with a stack and no message
Errors ==
  { [message |-> Str(<<"b", "o", "o", "m">>), stack |-> Undef],
    [message |-> Undef, stack |-> Str(<<"a", "t", " ", "f">>)] }

\* what a downstream handler does with (req, res) before it responds or
\* raises: set res.statusCode, and possibly reassign or delete req.requestId
Evil == Str(<<"e", "v", "i", "l">>)
Behaviour(status, tamper, raise) == [status |-> status, tamper |-> tamper, raise |-> raise]
HandlerBehaviours ==
  {Behaviour(st, "none", {}) : st \in Statuses}
    \cup {Behaviour(200, "none", {e}) : e \in Errors}
    \cup {Behaviour(200, "overwrite", {e}) : e \in {x \in Errors : Truthy(x.message)}}
    \cup {Behaviour(200, "delete", {e}) : e \in {x \in Errors : ~Truthy(x.message)}}

\* ------------------------------------------------------------ the state ----
VARIABLES
  opts,       \* this.opts of the one GcpLogger instance
  env,        \* process.env
  lastIndex,  \* lastIndex of each RegExp of opts.skipPaths
  reqs,       \* per request: the (req, res) pair, its listeners, its progress
  stdout,     \* what console.log was given, in order
  stderr,     \* what console.error was given, in order
  uuids       \* how many identifiers crypto.randomUUID has drawn

vars == <<opts, env, lastIndex, reqs, stdout, stderr, uuids>>

\* pc: idle -> arrived -> handling -> responded -> done, and on a failure
\*     arrived|handling -> failed -> errored -> responded -> done
\* requestId and statusCode are the properties req.requestId and
\* res.statusCode; listeners are the closures registered with
\* res.on("finish"); nextCalls are the calls of next made by the two
\* interceptors; uncaught are the exceptions that left a hook; drawn are the
\* identifiers randomUUID returned to a hook of this request; errorCalls are
\* the failures the error interceptor was invoked with; tampered tells that a
\* handler assigned req.requestId.
NewRequest ==
  [pc |-> "idle", path |-> <<>>, headers |-> <<>>, body |-> Undef,
   requestId |-> Undef, statusCode |-> 200, listeners |-> <<>>,
   err |-> {}, nextCalls |-> <<>>, uncaught |-> <<>>, drawn |-> <<>>,
   errorCalls |-> <<>>,
   tampered |-> FALSE]

Init ==
  /\ \E d \in Deployments :
       /\ opts = Constructor(d.options)
       /\ env = d.env
       /\ lastIndex = [i \in DOMAIN Constructor(d.options).skipPaths |-> 0]
  /\ reqs = [r \in Reqs |-> NewRequest]
  /\ stdout = <<>>
  /\ stderr = <<>>
  /\ uuids = 0

\* The host pipeline receives a request and builds (req, res).
Arrive(r) ==
  /\ reqs[r].pc = "idle"
  /\ \E s \in Samples :
       reqs' = [reqs EXCEPT ![r].pc = "arrived", ![r].path = s.path,
                            ![r].headers = s.headers, ![r].body = s.body]
  /\ UNCHANGED <<opts, env, lastIndex, stdout, stderr, uuids>>

\* A middleware installed before logger.request() (express.json()) raises:
\* the pipeline goes to the error handlers without running the interceptor.
EarlyFailure(r) ==
  /\ reqs[r].pc = "arrived"
  /\ \E e \in Errors :
       reqs' = [reqs EXCEPT ![r].pc = "failed", ![r].err = {e}]
  /\ UNCHANGED <<opts, env, lastIndex, stdout, stderr, uuids>>
\* console.log(line) and console.error(line) on the two sinks
Sinks(out, err) == [stdout |-> out, stderr |-> err]

\* consoleLog that sends an entry of severity ERROR to the error sink
consoleLogBySeverity(sinks, line) ==
  IF line.severity = "ERROR"
    THEN Sinks(sinks.stdout, Append(sinks.stderr, line))
    ELSE Sinks(Append(sinks.stdout, line), sinks.stderr)

consoleLog(sinks, line) == Sinks(Append(sinks.stdout, line), sinks.stderr)

consoleError(sinks, line) == Sinks(sinks.stdout, Append(sinks.stderr, line))

Drawn(hook, id) == [hook |-> hook, id |-> id]
NextCall(hook, args) == [hook |-> hook, args |-> args]
Uncaught(hook, error) == [hook |-> hook, error |-> error]

\* request() whose skip path returns without calling next
RequestInterceptorSkipReturns(r) ==
  LET req == reqs[r]
      skip == shouldSkip(opts, lastIndex, req.path)
      fresh == ~Truthy(Get(req.headers, "x-request-id"))
      requestId == requestIdOf(req.headers, uuids + 1)
  IN /\ req.pc = "arrived"
     /\ lastIndex' = skip.lastIndex
     /\ IF skip.result
          THEN /\ reqs' = [reqs EXCEPT ![r].pc = "handling"]
               /\ uuids' = uuids
          ELSE /\ \E started \in ClockReadings :
                    reqs' = [reqs EXCEPT
                      ![r].pc = "handling",
                      ![r].requestId = requestId,
                      ![r].drawn = IF fresh THEN Append(@, Drawn("request", requestId)) ELSE @,
                      ![r].listeners =
                         Append(@, [started |-> started, requestId |-> requestId,
                                    trace |-> buildTrace(opts, env, req.headers)]),
                      ![r].nextCalls = Append(@, NextCall("request", <<>>))]
               /\ uuids' = IF fresh THEN uuids + 1 ELSE uuids
     /\ UNCHANGED <<opts, env, stdout, stderr>>

\* request(): the middleware returned by logger.request()
RequestInterceptor(r) ==
  LET req == reqs[r]
      skip == shouldSkip(opts, lastIndex, req.path)
      fresh == ~Truthy(Get(req.headers, "x-request-id"))
      requestId == requestIdOf(req.headers, uuids + 1)
  IN /\ req.pc = "arrived"
     /\ lastIndex' = skip.lastIndex
     /\ IF skip.result
          THEN /\ reqs' = [reqs EXCEPT
                             ![r].pc = "handling",
                             ![r].nextCalls = Append(@, NextCall("request", <<>>))]
               /\ uuids' = uuids
          ELSE /\ \E started \in ClockReadings :
                    reqs' = [reqs EXCEPT
                      ![r].pc = "handling",
                      ![r].requestId = requestId,
                      ![r].drawn = IF fresh THEN Append(@, Drawn("request", requestId)) ELSE @,
                      ![r].listeners =
                         Append(@, [started |-> started, requestId |-> requestId,
                                    trace |-> buildTrace(opts, env, req.headers)]),
                      ![r].nextCalls = Append(@, NextCall("request", <<>>))]
               /\ uuids' = IF fresh THEN uuids + 1 ELSE uuids
     /\ UNCHANGED <<opts, env, stdout, stderr>>

\* The downstream handlers (routes, other middleware): they share req and res
\* with the logger, then send the response or raise.
Handler(r) ==
  /\ reqs[r].pc = "handling"
  /\ \E b \in HandlerBehaviours :
       reqs' = [reqs EXCEPT
         ![r].statusCode = b.status,
         ![r].requestId = CASE b.tamper = "overwrite" -> Evil
                            [] b.tamper = "delete" -> Undef
                            [] OTHER -> @,
         ![r].tampered = b.tamper # "none",
         ![r].err = b.raise,
         ![r].pc = IF b.raise = {} THEN "responded" ELSE "failed"]
  /\ UNCHANGED <<opts, env, lastIndex, stdout, stderr, uuids>>

\* error(): the error middleware returned by logger.error().  An exception
\* that leaves it is caught by the pipeline and replaces the failure.
ErrorInterceptor(r) ==
  LET req == reqs[r]
      err == CHOOSE e \in req.err : TRUE
      fresh == ~Truthy(req.requestId)
      user == getUserId(opts, req)
      logEntry == errorLogEntry(opts, env, r, req, err, uuids + 1, user.value)
  IN /\ req.pc = "failed"
     /\ uuids' = IF fresh THEN uuids + 1 ELSE uuids
     /\ IF user.throws
          THEN /\ reqs' = [reqs EXCEPT
                             ![r].pc = "errored",
                             ![r].errorCalls = Append(@, err),
                             ![r].drawn = IF fresh THEN Append(@, Drawn("error", randomUUID(uuids + 1))) ELSE @,
                             ![r].uncaught = Append(@, Uncaught("error", ExtractorError)),
                             ![r].err = {ExtractorError}]
               /\ UNCHANGED <<stdout, stderr>>
          ELSE /\ stderr' = consoleError(Sinks(stdout, stderr), Serialize(logEntry)).stderr
               /\ stdout' = consoleError(Sinks(stdout, stderr), Serialize(logEntry)).stdout
               /\ reqs' = [reqs EXCEPT
                             ![r].pc = "errored",
                             ![r].errorCalls = Append(@, err),
                             ![r].drawn = IF fresh THEN Append(@, Drawn("error", randomUUID(uuids + 1))) ELSE @,
                             ![r].nextCalls = Append(@, NextCall("error", <<err>>))]
     /\ UNCHANGED <<opts, env, lastIndex>>

\* The pipeline's last error handler answers the failure with status 500.
FinalErrorHandler(r) ==
  /\ reqs[r].pc = "errored"
  /\ reqs' = [reqs EXCEPT ![r].pc = "responded", ![r].statusCode = 500]
  /\ UNCHANGED <<opts, env, lastIndex, stdout, stderr, uuids>>

\* a callback that reads start, requestId and trace from one place shared
\* by the requests (what the first request in flight stored) instead of the
\* variables its own registration captured
capturedShared(r) ==
  LET inFlight == {q \in Reqs : reqs[q].listeners # <<>>}
      first == CHOOSE q \in inFlight : \A x \in inFlight : q <= x
  IN Head(reqs[first].listeners)

\* start, requestId and trace as the finish callback of request r sees them:
\* the constants of the interceptor call that registered it
captured(r) == Head(reqs[r].listeners)

\* The response is finalized: res emits "finish", once, which runs the
\* callback registered by the request interceptor, if any.
Finish(r) ==
  LET req == reqs[r]
      user == getUserId(opts, req)
  IN /\ req.pc = "responded"
     /\ IF req.listeners = <<>>
          THEN /\ reqs' = [reqs EXCEPT ![r].pc = "done"]
               /\ UNCHANGED <<stdout, stderr>>
          ELSE IF user.throws
            THEN /\ reqs' = [reqs EXCEPT
                               ![r].pc = "done",
                               ![r].uncaught = Append(@, Uncaught("finish", ExtractorError))]
                 /\ UNCHANGED <<stdout, stderr>>
            ELSE /\ \E now \in ClockReadings :
                      LET logEntry == requestLogEntry(opts, r, req, captured(r),
                                                      now, user.value)
                          sinks == consoleLog(Sinks(stdout, stderr), Serialize(logEntry))
                      IN /\ stdout' = sinks.stdout
                         /\ stderr' = sinks.stderr
                 /\ reqs' = [reqs EXCEPT ![r].pc = "done"]
     /\ UNCHANGED <<opts, env, lastIndex, uuids>>

Next ==
  \E r \in Reqs :
    \/ Arrive(r)
    \/ EarlyFailure(r)
    \/ RequestInterceptor(r)
    \/ Handler(r)
    \/ ErrorInterceptor(r)
    \/ FinalErrorHandler(r)
    \/ Finish(r)

Spec == Init /\ [][Next]_vars

\* the interceptor runs once per request, so res has at most one listener
OneListener == \A r \in Reqs : Len(reqs[r].listeners) <= 1
\* ---------------------------------------------------------- the claims ----
Absent == [t |-> "absent", v |-> <<>>, items |-> <<>>]
Field(obj, k) == IF k \in DOMAIN obj THEN obj[k] ELSE Absent

LogEntriesOf(r) == {i \in DOMAIN stdout : stdout[i].of = r}
ErrorEntriesOf(r) == {i \in DOMAIN stderr : stderr[i].of = r}

\* the interceptor ran for r and did not skip it
Processed(r) == reqs[r].listeners # <<>>

\* entry e shows the value v in one of its fields
Shows(e, v) ==
  \/ \E k \in DOMAIN e.headers : e.headers[k] = v
  \/ \E k \in {"userAgent", "referer"} : Field(e.httpRequest, k) = v
  \/ \E k \in JsValued : Field(e, k) = v

\* the headers of e's request whose name is, ignoring case, a redacted name
RedactedNames(e) ==
  {k \in DOMAIN reqs[e.of].headers : ToLowerCase(k) \in Range(opts.redactHeaders)}

\* C1: no entry of either sink shows, in any field, the inbound value of a
\* header whose name is a redacted name ignoring case.
C1_NoRedactedValueInEntry ==
  \A e \in Range(stdout) \cup Range(stderr) :
    \A k \in RedactedNames(e) : ~Shows(e, reqs[e.of].headers[k])

\* C2: every invocation of the error interceptor hands one entry to the
\* error sink and calls next once, with the failure it received.
C2_ErrorLoggedAndForwarded ==
  \A r \in Reqs :
    LET calls == reqs[r].errorCalls
    IN /\ Cardinality(ErrorEntriesOf(r)) = Len(calls)
       /\ SelectSeq(reqs[r].nextCalls, LAMBDA c : c.hook = "error")
            = [i \in DOMAIN calls |-> NextCall("error", <<calls[i]>>)]

\* the path of r matches a pattern of skipPaths
MatchesSkipPattern(r) ==
  \E rx \in Range(opts.skipPaths) : reqs[r].path = rx.source

\* C3: a request whose path matches a skip pattern gets no entry from any
\* hook, no start timestamp, no generated or stored requestId and no
\* completion callback.
C3_SkippedRequestUntouched ==
  \A r \in Reqs :
    (reqs[r].pc # "idle" /\ MatchesSkipPattern(r)) =>
      /\ LogEntriesOf(r) = {}
      /\ ErrorEntriesOf(r) = {}
      /\ reqs[r].listeners = <<>>
      /\ reqs[r].drawn = <<>>
\* the identifiers randomUUID returned to the hooks of r, and to one hook
DrawnIds(r) == {d.id : d \in Range(reqs[r].drawn)}
DrawnBy(r, hook) == {d.id : d \in {x \in Range(reqs[r].drawn) : x.hook = hook}}

\* the identifier the request interceptor gave r
Assigned(r) == Head(reqs[r].listeners).requestId

\* C4, as claimed: the error entry of a request the interceptor processed
\* carries the requestId the interceptor assigned, whatever the handler did.
C4_ErrorEntryHasAssignedId ==
  \A i \in DOMAIN stderr :
    Processed(stderr[i].of) => stderr[i].requestId = Assigned(stderr[i].of)

\* C4, amended: a processed request is assigned one requestId; the error entry
\* carries the value req.requestId holds when the error interceptor runs,
\* which is the assigned one unless a handler reassigned the property, and a
\* newly drawn identifier exactly when that value is absent or empty.
C4_ErrorEntryHasStoredId ==
  /\ \A r \in Reqs :
       Processed(r) => Len(reqs[r].listeners) = 1 /\ Truthy(Assigned(r))
  /\ \A i \in DOMAIN stderr :
       LET e == stderr[i]
           r == e.of
       IN /\ (Processed(r) /\ ~reqs[r].tampered) => e.requestId = Assigned(r)
          /\ Truthy(reqs[r].requestId) =>
               e.requestId = reqs[r].requestId /\ DrawnBy(r, "error") = {}
          /\ ~Truthy(reqs[r].requestId) =>
               /\ e.requestId \in DrawnBy(r, "error")
               /\ Processed(r) => e.requestId # Assigned(r)

\* C4 witness: an error entry for a processed, untampered request, with the
\* identifier of its inbound header
C4_ErrorAfterInterceptor ==
  \E i \in DOMAIN stderr :
    LET r == stderr[i].of
    IN /\ Processed(r) /\ ~reqs[r].tampered
       /\ stderr[i].requestId = Get(reqs[r].headers, "x-request-id")
       /\ LogEntriesOf(r) # {}

\* every identifier randomUUID has returned, with the request it was drawn for
AllDrawn == {<<r, j>> : r \in Reqs, j \in 1 .. 2} \cap
            {p \in Reqs \X (1 .. 2) : p[2] \in DOMAIN reqs[p[1]].drawn}

\* C5: the completion entry of a request with a non-empty x-request-id carries
\* that value; otherwise it carries a drawn identifier, and no identifier is
\* drawn twice, for the same or for another request.
C5_RequestIdFromHeaderOrFresh ==
  /\ \A i \in DOMAIN stdout :
       LET e == stdout[i]
           r == e.of
           h == Get(reqs[r].headers, "x-request-id")
       IN /\ Truthy(h) => e.requestId = h
          /\ ~Truthy(h) =>
               /\ e.requestId \in DrawnBy(r, "request")
               /\ \A q \in Reqs \ {r} : e.requestId \notin DrawnIds(q)
  /\ \A p, q \in AllDrawn :
       p # q => reqs[p[1]].drawn[p[2]].id # reqs[q[1]].drawn[q[2]].id

\* C5 witness: one completion entry with the header's identifier, another
\* with a drawn one, while the first request had an identifier drawn as well
C5_HeaderAndFreshEntries ==
  \E i, j \in DOMAIN stdout :
    LET r == stdout[i].of
        q == stdout[j].of
    IN /\ r # q
       /\ Truthy(Get(reqs[r].headers, "x-request-id"))
       /\ stdout[i].requestId = Get(reqs[r].headers, "x-request-id")
       /\ reqs[r].drawn # <<>>
       /\ ~Truthy(Get(reqs[q].headers, "x-request-id"))
       /\ stdout[j].requestId \in DrawnIds(q)

\* C6: with an extractor that raises, no exception leaves a hook, a finished
\* processed request has its request entry, and an invocation of the error
\* interceptor has its error entry and its forwarded failure.
C6_ExtractorFailureRecovered ==
  opts.getUserId = "throws" =>
    \A r \in Reqs :
      /\ reqs[r].uncaught = <<>>
      /\ (reqs[r].pc = "done" /\ Processed(r)) => LogEntriesOf(r) # {}
      /\ reqs[r].errorCalls # <<>> =>
           /\ ErrorEntriesOf(r) # {}
           /\ \E c \in Range(reqs[r].nextCalls) : c.hook = "error"

\* C7: durationMs of a request entry is never negative.
C7_DurationNonNegative ==
  \A i \in DOMAIN stdout : stdout[i].durationMs >= 0

\* C8: a processed request has no request entry before its response is
\* finalized and exactly one once it is.
C8_OneEntryAtFinish ==
  \A r \in Reqs :
    /\ reqs[r].pc # "done" => LogEntriesOf(r) = {}
    /\ (reqs[r].pc = "done" /\ Processed(r)) => Cardinality(LogEntriesOf(r)) = 1

\* C9, as claimed: the informational sink holds entries of severity INFO or
\* WARNING only (so every ERROR entry is in the error sink).
C9_InfoSinkOnlyInfoWarning ==
  \A i \in DOMAIN stdout : stdout[i].severity \in {"INFO", "WARNING"}

\* C9, amended: the informational sink holds exactly the request entries,
\* of severity INFO, WARNING or, for a final status of 500 and above, ERROR;
\* the error sink holds exactly the error interceptor's entries, all ERROR.
C9_SinkByHook ==
  /\ \A i \in DOMAIN stdout :
       /\ stdout[i].type = "request"
       /\ stdout[i].severity \in {"INFO", "WARNING", "ERROR"}
       /\ stdout[i].severity = "ERROR" <=> stdout[i].httpRequest.status >= 500
  /\ \A i \in DOMAIN stderr :
       stderr[i].type = "error" /\ stderr[i].severity = "ERROR"

\* C9 witness: a request entry of severity ERROR in the informational sink,
\* next to an error entry in the error sink
C9_ServerErrorInInfoSink ==
  /\ \E i \in DOMAIN stdout :
       stdout[i].severity = "ERROR" /\ stdout[i].httpRequest.status >= 500
  /\ stderr # <<>>

\* the statuses the classification is checked on, besides those of the runs
StatusRange == {0 - 1, 0, 100, 200, 304, 399, 400, 401, 404, 499, 500, 501, 503, 600}

\* C10: the severity of a request entry is that of res.statusCode as it is
\* when the response is finalized: ERROR iff >= 500, WARNING iff in
\* 400..499, INFO otherwise.
C10_SeverityOfFinalStatus ==
  /\ \A i \in DOMAIN stdout :
       LET e == stdout[i]
           st == e.httpRequest.status
       IN /\ st = reqs[e.of].statusCode
          /\ e.severity = "ERROR" <=> st >= 500
          /\ e.severity = "WARNING" <=> (400 <= st /\ st < 500)
          /\ e.severity = "INFO" <=> st < 400
  /\ \A st \in StatusRange :
       /\ statusToSeverity(st) = "ERROR" <=> st >= 500
       /\ statusToSeverity(st) = "WARNING" <=> (400 <= st /\ st < 500)
       /\ statusToSeverity(st) = "INFO" <=> st < 400

\* C10 witness: entries whose status was set by the handler after the
\* interceptor ran, at both boundaries
C10_BoundaryStatusesLogged ==
  /\ \E i \in DOMAIN stdout :
       stdout[i].httpRequest.status = 500 /\ stdout[i].severity = "ERROR"
          /\ reqs[stdout[i].of].errorCalls = <<>>
  /\ \E i \in DOMAIN stdout :
       stdout[i].httpRequest.status = 499 /\ stdout[i].severity = "WARNING"
\* the failures the error entry is computed for, besides those of the runs:
\* with and without message, with an empty message, with and without stack
Boom == Str(<<"b", "o", "o", "m">>)
FailureValues ==
  Errors \cup { [message |-> Str(<<>>), stack |-> Undef],
                [message |-> Boom, stack |-> Str(<<"a", "t", " ", "g">>)] }

\* e is the error entry of the failure err
IsErrorEntryOf(e, err) ==
  /\ e.severity = "ERROR"
  /\ e.type = "error"
  /\ e.message = IF Truthy(err.message) THEN err.message ELSE UNHANDLED
  /\ IF err.stack = Undef THEN "stack" \notin DOMAIN e ELSE e.stack = err.stack

\* C11: an error entry has severity ERROR whatever res.statusCode is, the
\* failure's message or, without one, "Unhandled error", and no stack field
\* when the failure has no stack; this for the entries emitted and for the
\* entry of any failure and status where the error interceptor is due.
C11_ErrorEntryShape ==
  /\ \A i \in DOMAIN stderr :
       IsErrorEntryOf(stderr[i], reqs[stderr[i].of].errorCalls[1])
  /\ \A r \in {x \in Reqs : reqs[x].pc = "failed"} :
       \A st \in Statuses \cup {200} : \A err \in FailureValues :
         IsErrorEntryOf(
           Serialize(errorLogEntry(opts, env, r, [reqs[r] EXCEPT !.statusCode = st],
                                   err, uuids + 1, Undef)),
           err)

\* C11 witness: the entry of Error("boom") without a stack, and the entry of
\* a failure without a message
C11_BoomWithoutStackLogged ==
  /\ \E i \in DOMAIN stderr :
       stderr[i].message = Boom /\ "stack" \notin DOMAIN stderr[i]
  /\ \E i \in DOMAIN stderr :
       stderr[i].message = UNHANDLED /\ "stack" \in DOMAIN stderr[i]
\* the names a and b are equal ignoring case
EqualIgnoringCase(a, b) ==
  \/ a = b
  \/ {a, b} \in { {"Authorization", "authorization"}, {"Referer", "referer"},
                  {"X-Request-Id", "x-request-id"} }

\* the redacted names as they were spelled in the options of the constructor
GivenRedactHeaders ==
  LET d == CHOOSE x \in Deployments : Constructor(x.options) = opts
  IN Range(Opt(d.options.redactHeaders, DefaultRedactHeaders))

\* out is the redaction of the headers h for the configured names given
IsRedactionOf(out, h, given) ==
  /\ DOMAIN out = DOMAIN h
  /\ \A k \in DOMAIN h :
       out[k] = IF \E n \in given : EqualIgnoringCase(k, n)
                  THEN REDACTED
                  ELSE h[k]

\* C12: safeHeaders keeps the header names; a name equal, ignoring case, to a
\* configured name, however that was spelled, maps to "[REDACTED]" and every
\* other name to its value, arrays included; the entries carry that mapping.
C12_HeadersRedactedIgnoringCase ==
  LET given == GivenRedactHeaders
  IN /\ \A r \in Reqs :
          IsRedactionOf(safeHeaders(opts, reqs[r].headers), reqs[r].headers, given)
     /\ \A i \in DOMAIN stdout :
          IsRedactionOf(stdout[i].headers, reqs[stdout[i].of].headers, given)
     /\ \A i \in DOMAIN stderr :
          IsRedactionOf(stderr[i].headers, reqs[stderr[i].of].headers, given)

\* C12 witness: with the names configured as "Authorization" and "Referer",
\* an entry masks the headers Authorization and referer and keeps
\* user-agent, and another entry keeps a header whose value is an array
C12_MixedCaseMasked ==
  /\ "Authorization" \in GivenRedactHeaders
  /\ \E i \in DOMAIN stdout :
       LET e == stdout[i]
       IN /\ {"Authorization", "referer", "user-agent"} \subseteq DOMAIN e.headers
          /\ e.headers["Authorization"] = REDACTED
          /\ e.headers["referer"] = REDACTED
          /\ e.headers["user-agent"] = reqs[e.of].headers["user-agent"]
  /\ \E i \in DOMAIN stdout :
       /\ "set-cookie" \in DOMAIN stdout[i].headers
       /\ stdout[i].headers["set-cookie"].t = "array"
       /\ stdout[i].headers["set-cookie"] = reqs[stdout[i].of].headers["set-cookie"]
\* process.env as the trace derivation may find it
EnvOf(names, values) == [n \in names |-> Str(values[n])]
ProjectValues ==
  [n \in {"GOOGLE_CLOUD_PROJECT", "GCLOUD_PROJECT", "GCP_PROJECT", "MY_PROJECT"} |->
     CASE n = "GOOGLE_CLOUD_PROJECT" -> <<"p">>
       [] n = "GCLOUD_PROJECT" -> <<"g">>
       [] n = "GCP_PROJECT" -> <<"q">>
       [] n = "MY_PROJECT" -> <<"m">>]
TraceEnvs ==
  { EnvOf({}, ProjectValues),
    EnvOf(DOMAIN ProjectValues, ProjectValues),
    EnvOf({"GCLOUD_PROJECT", "GCP_PROJECT", "MY_PROJECT"}, ProjectValues),
    EnvOf({"GCP_PROJECT"}, ProjectValues),
    EnvOf({"MY_PROJECT"}, ProjectValues),
    EnvOf({"GCP_PROJECT", "MY_PROJECT"}, ProjectValues),
    EnvOf({"GOOGLE_CLOUD_PROJECT", "GCLOUD_PROJECT"},
          [ProjectValues EXCEPT !["GOOGLE_CLOUD_PROJECT"] = <<>>]) }

\* the x-cloud-trace-context headers: none, empty, "abc/1;o=1", without "/",
\* starting with "/", with two "/"
TraceHeaders ==
  { <<>> } \cup
  { [n \in {"x-cloud-trace-context"} |-> Str(v)] :
      v \in { <<>>, <<"a", "b", "c", "/", "1", ";", "o", "=", "1">>, <<"a", "b", "c">>,
              <<"/", "1">>, <<"a", "/", "b", "/", "c">> } }

\* P: the first non-empty value among the primary variable, the secondary
\* one and the variable named var; empty when there is none
ProjectOf(e, var) ==
  LET val(n) == IF n \in DOMAIN e THEN e[n].v ELSE <<>>
  IN IF val("GOOGLE_CLOUD_PROJECT") # <<>> THEN val("GOOGLE_CLOUD_PROJECT")
     ELSE IF val("GCLOUD_PROJECT") # <<>> THEN val("GCLOUD_PROJECT")
     ELSE val(var)

\* T: the part of the header before its first "/"; empty without a header
TraceIdOf(h) ==
  IF "x-cloud-trace-context" \notin DOMAIN h THEN <<>>
  ELSE LET s == h["x-cloud-trace-context"].v
           cut == {i \in 0 .. Len(s) :
                     /\ \A j \in 1 .. i : s[j] # "/"
                     /\ i = Len(s) \/ s[i + 1] = "/"}
       IN SubSeq(s, 1, CHOOSE i \in cut : TRUE)

\* "projects/{P}/traces/{T}" when both are non-empty, nothing otherwise
TraceOf(e, var, h) ==
  IF ProjectOf(e, var) # <<>> /\ TraceIdOf(h) # <<>>
    THEN Str(PROJECTS \o ProjectOf(e, var) \o TRACES \o TraceIdOf(h))
    ELSE Undef

\* the trace field of an entry, undefined when JSON.stringify dropped it
TraceField(e) == IF "trace" \in DOMAIN e THEN e.trace ELSE Undef

\* C13: buildTrace returns "projects/{P}/traces/{T}" exactly when P and T are
\* non-empty and nothing otherwise, for every environment and header (computed
\* for each configuration before its first request), and the entries carry
\* that value for the environment and the headers of their request.
C13_TraceComposed ==
  /\ (\A r \in Reqs : reqs[r].pc = "idle") =>
       \A e \in TraceEnvs : \A h \in TraceHeaders :
         /\ buildTrace(opts, e, h) = TraceOf(e, opts.projectIdEnvVar, h)
         /\ e = <<>> => buildTrace(opts, e, h) = Undef
  /\ \A i \in DOMAIN stdout :
       TraceField(stdout[i]) =
         TraceOf(env, opts.projectIdEnvVar, reqs[stdout[i].of].headers)
  /\ \A i \in DOMAIN stderr :
       TraceField(stderr[i]) =
         TraceOf(env, opts.projectIdEnvVar, reqs[stderr[i].of].headers)

\* C13 witness: with a project in the environment, the entry of a request
\* with the header "t/1" has the trace "projects/<project>/traces/t", and the
\* entry of a request without the header has none
C13_TraceInEntry ==
  /\ \E i \in DOMAIN stdout :
       /\ "trace" \in DOMAIN stdout[i]
       /\ \E n \in DOMAIN env :
            stdout[i].trace = Str(PROJECTS \o env[n].v \o TRACES \o <<"t">>)
  /\ \E i \in DOMAIN stdout :
       /\ "trace" \notin DOMAIN stdout[i]
       /\ "x-cloud-trace-context" \notin DOMAIN reqs[stdout[i].of].headers
\* the bodies safeBody is computed for: none, the strings "", "ab", "abc",
\* "abcde" and "abcdefghijklmnop", the object {} and an object that cannot be
\* serialized
Alphabet ==
  <<"a", "b", "c", "d", "e", "f", "g", "h", "i", "j", "k", "l", "m", "n", "o", "p">>
Bodies ==
  {Undef} \cup {Str(SubSeq(Alphabet, 1, n)) : n \in {0, 2, 3, 5, 16}}
    \cup {s.body : s \in Samples}
BodyLimits == (0 .. MaxBody) \cup {10}

\* what the claim says of a body b under captureBody c and maxBodyLength m
CapturedBody(c, m, b) ==
  IF ~c THEN Undef
  ELSE IF b.t = "circular" THEN UNSERIALIZABLE
  ELSE IF b.t = "undefined" \/ b.v = <<>> THEN Undef
  ELSE IF Len(b.v) <= m THEN Str(b.v)
  ELSE Str([i \in 1 .. m |-> b.v[i]] \o TRUNCATED)

\* the body field of an entry, undefined when JSON.stringify dropped it
BodyField(e) == IF "body" \in DOMAIN e THEN e.body ELSE Undef

\* C14: safeBody returns nothing without captureBody or for an empty text,
\* the marker for an unserializable body, the text when it is at most
\* maxBodyLength long and else its first maxBodyLength characters and
\* "...[truncated]" (computed for every limit and body under each
\* configuration before its first request); the request entries carry it.
C14_BodyCaptured ==
  /\ (\A r \in Reqs : reqs[r].pc = "idle") =>
       \A c \in BOOLEAN : \A m \in BodyLimits : \A b \in Bodies :
         LET out == safeBody([opts EXCEPT !.captureBody = c, !.maxBodyLength = m], b)
         IN /\ out = CapturedBody(c, m, b)
            /\ (out.t = "string" /\ out # UNSERIALIZABLE /\ Len(out.v) > m) =>
                 /\ Len(out.v) = m + Len(TRUNCATED)
                 /\ SubSeq(out.v, m + 1, Len(out.v)) = TRUNCATED
  /\ safeBody([opts EXCEPT !.captureBody = TRUE, !.maxBodyLength = 10],
              Str(SubSeq(Alphabet, 1, 16)))
       = Str(SubSeq(Alphabet, 1, 10) \o TRUNCATED)
  /\ \A i \in DOMAIN stdout :
       BodyField(stdout[i]) =
         CapturedBody(opts.captureBody, opts.maxBodyLength, reqs[stdout[i].of].body)

\* C14 witness: with captureBody and maxBodyLength 2, the entry of the body
\* "abc" holds "ab...[truncated]" and the entry of the body {} holds "{}"
C14_TruncatedBodyLogged ==
  /\ \E i \in DOMAIN stdout :
       /\ reqs[stdout[i].of].body = Str(<<"a", "b", "c">>)
       /\ BodyField(stdout[i]) = Str(<<"a", "b">> \o TRUNCATED)
  /\ \E i \in DOMAIN stdout :
       /\ reqs[stdout[i].of].body.t = "object"
       /\ BodyField(stdout[i]) = Str(<<"{", "}">>)
\* a step in which the request interceptor calls next once, without
\* argument, and emits nothing, and in which a request entry is emitted only
\* by the finalization of a response
PassesOnWithoutEntry ==
  /\ \A r \in Reqs :
       (reqs[r].pc = "arrived" /\ reqs'[r].pc = "handling") =>
         /\ reqs'[r].nextCalls = Append(reqs[r].nextCalls, NextCall("request", <<>>))
         /\ stdout' = stdout
         /\ stderr' = stderr
  /\ (stdout' # stdout) =>
       \E r \in Reqs : reqs[r].pc = "responded" /\ reqs'[r].pc = "done"

\* C15: every step of the request interceptor, on the skip path and on the
\* other one, calls next once and emits nothing; request entries are emitted
\* only when a response is finalized.
C15_NextOnceNothingInline == [][PassesOnWithoutEntry]_vars

\* C15 witness: the interceptor has passed on a skipped request and a
\* processed one, each with its one call of next, and nothing is emitted
C15_PassedOnBothPaths ==
  \E r, q \in Reqs :
    /\ reqs[r].pc = "handling" /\ ~Processed(r)
    /\ reqs[q].pc = "handling" /\ Processed(q)
    /\ reqs[r].nextCalls = <<NextCall("request", <<>>)>>
    /\ reqs[q].nextCalls = <<NextCall("request", <<>>)>>
    /\ stdout = <<>> /\ stderr = <<>>
\* the requestId the request interceptor determines for request r
OwnRequestId(e, r) ==
  LET h == Get(reqs[r].headers, "x-request-id")
  IN IF Truthy(h) THEN e.requestId = h ELSE e.requestId \in DrawnBy(r, "request")

\* C16: under every interleaving of the hooks of the requests in flight, a
\* request entry carries the requestId, trace, duration from the start
\* timestamp, path, status and headers of its own request, and an error entry
\* the requestId, trace, path and headers of its own.
C16_EntriesOfOwnRequest ==
  LET given == GivenRedactHeaders
  IN /\ \A i \in DOMAIN stdout :
          LET e == stdout[i]
              r == e.of
              c == Head(reqs[r].listeners)
          IN /\ Processed(r)
             /\ e.requestId = c.requestId /\ OwnRequestId(e, r)
             /\ TraceField(e) = c.trace
             /\ TraceField(e) = TraceOf(env, opts.projectIdEnvVar, reqs[r].headers)
             /\ \E now \in ClockReadings : e.durationMs = durationMs(now, c.started)
             /\ e.path = reqs[r].path
             /\ e.httpRequest.status = reqs[r].statusCode
             /\ IsRedactionOf(e.headers, reqs[r].headers, given)
     /\ \A i \in DOMAIN stderr :
          LET e == stderr[i]
              r == e.of
          IN /\ IF Truthy(reqs[r].requestId)
                  THEN e.requestId = reqs[r].requestId
                  ELSE e.requestId \in DrawnBy(r, "error")
             /\ TraceField(e) = TraceOf(env, opts.projectIdEnvVar, reqs[r].headers)
             /\ e.path = reqs[r].path
             /\ IsRedactionOf(e.headers, reqs[r].headers, given)

\* C16 witness: q entered the interceptor before r (it drew the first
\* identifier, r the second), r was finalized first and has its entry while
\* q, a request with other headers, is still with its handler
C16_Interleaved ==
  \E r, q \in Reqs :
    /\ r # q
    /\ reqs[r].headers # reqs[q].headers
    /\ DrawnBy(q, "request") = {randomUUID(1)}
    /\ DrawnBy(r, "request") = {randomUUID(2)}
    /\ reqs[q].pc = "handling"
    /\ \E i \in DOMAIN stdout : stdout[i].of = r /\ stdout[i].requestId = randomUUID(2)
\* the paths of the requests
Paths == {s.path : s \in Samples}

\* C17: after construction no operation changes the configuration or the
\* matching state of the skip patterns, so in every state the options are the
\* constructed ones, every pattern is in its constructed matching state, and
\* shouldSkip answers for each path what it answered after construction.
C17_ConfigurationReadOnly ==
  LET constructed == [i \in DOMAIN opts.skipPaths |-> 0]
  IN /\ \E d \in Deployments : opts = Constructor(d.options)
     /\ lastIndex = constructed
     /\ \A path \in Paths :
          shouldSkip(opts, lastIndex, path).result
            = shouldSkip(opts, constructed, path).result
====
